---- MODULE Spec2Model ----
(***************************************************************************)
(* Flappy Bird (app/(tabs)/index.tsx): the FlappyBirdGame component as a   *)
(* state machine.                                                          *)
(*                                                                         *)
(* React state (useState) and refs (useRef) are the variables.  Event      *)
(* handlers and the requestAnimationFrame callback are actions that set    *)
(* state and queue updates; Render is the render and commit that applies   *)
(* them; Effects runs, as a step of its own after the commit, the effects  *)
(* whose dependencies changed.  Handlers read the state of the last commit *)
(* (their closure), kept in `rendered`.                                    *)
(*                                                                         *)
(* Units.  Horizontal coordinates are whole pixels.  Vertical positions    *)
(* and velocities are in 1/Scale pixel: one frame adds                     *)
(* GRAVITY * (deltaTime / 16.67) = 7 * deltaTime / 1667 pixel to the       *)
(* velocity, so with Scale = 1667 and deltaTime in whole milliseconds      *)
(* (Date.now()) every quantity is an integer and the arithmetic is exact.  *)
(* The program adds doubles (lines 132-133): its sums are the exact ones   *)
(* up to a rounding error far below one unit, which decides a comparison   *)
(* with the ground or the ceiling only when the exact sum is on the        *)
(* boundary.  There the frame takes the sign of the error as an input.     *)
(* Pipe heights are in 1/Cent pixel: Math.random() is drawn in hundredths, *)
(* so topHeight = Math.random() * (H - 380) + 50 is a whole number of      *)
(* hundredths of a pixel, fraction kept.                                   *)
(***************************************************************************)
EXTENDS Integers, Sequences, FiniteSets, TLC

\* ------------------------------------------------------------- constants
Scale == 1667
Cent == 100

\* Dimensions.get('window') (line 12), read once at startup: a phone in
\* portrait, and a desktop browser window.
Phone == [width |-> 320, height |-> 480]
Desktop == [width |-> 1920, height |-> 1080]
\* A narrow handset in portrait.
Handset == [width |-> 320, height |-> 568]

VARIABLE screen

SCREEN_WIDTH == screen.width
SCREEN_HEIGHT == screen.height

GRAVITY_X100 == 7
FRAME_MS_X100 == 1667
JUMP_STRENGTH == -7
PIPE_WIDTH == 60
PIPE_GAP == 180
PIPE_SPEED == 3
BIRD_COLLISION_SIZE == 32
COLLISION_TOLERANCE == 3
GROUND_HEIGHT == 100
DELTA_CAP == 50
SPAWN_DISTANCE == 300
FIRST_PIPE_OFFSET == 200
SEED_COUNT == 3
TOP_MARGIN == 50
BOTTOM_MARGIN == 100

BIRD_START_X == SCREEN_WIDTH \div 4
BIRD_START_Y == (SCREEN_HEIGHT * Scale) \div 2

\* ---------------------------------------------------------------- bounds
\* On the phone: frames simulated in one run, and jump taps accepted in one
\* run.
MaxFrames == 200
MaxTaps == 1
\* The frame callbacks that may run before the next render.
MaxQueued == 2

\* On the desktop window: frames simulated in one run; the player flaps only
\* when the bird is falling within LowZone pixels of the ground boundary.
MaxFramesWide == 480
LowZone == 16

\* On the handset: frames simulated in one run; the player flaps, if at all,
\* once right after each of two frames of the run.
MaxFramesPlay == 380
FirstTapFrame == 33
SecondTapFrame == 207
TapFrames == {FirstTapFrame, SecondTapFrame}

\* Milliseconds between two animation frames, as Date.now() reports them.  A
\* 60 Hz display gives ShortMs or SteadyMs, SlowMs when a frame is dropped;
\* the first frame of a run comes after the commits that follow the starting
\* tap, after one of these or after a pause of PauseMs.  The display values
\* are drawn for the frames before VariedFrames; the frames after them take
\* the steady value.
ShortMs == 16
SteadyMs == 17
SlowMs == 33
PauseMs == 400
VariedFrames == 2
FrameMs == {ShortMs, SteadyMs, SlowMs}
FirstFrameMs == FrameMs \cup {PauseMs}

\* Math.random() in hundredths, sampled at n points from 0 to 0.99.  Each
\* draw of the seeding effect comes from SeedPoints points, independently; the
\* draw of a spawned pipe from SpawnPoints points.
SeedPoints == 1
SpawnPoints == 2
Grid(n) ==
    IF n = 1 THEN {0}
    ELSE {(i * (Cent - 1)) \div (n - 1) : i \in 0..(n - 1)}
RandomSamples == Grid(SpawnPoints)
SeedSamples == Grid(SeedPoints) \X Grid(SeedPoints) \X Grid(SeedPoints)

VARIABLES
    gameStarted, gameOver, score, pipeIdCounter,          \* useState, as last set
    pipes,                                                \* useState, as last rendered
    queue,                                                \* pending updates of pipes
    birdYValue, birdVelocity, gameOverRef,                \* useRef
    animationFrameRef, hasCollided, currentPipeIdCounter, \* game loop closure
    oldHasCollided, oldCounter,                           \* the closure before it
    rendered, effectsPending, lastDeps,                   \* the last commit
    op, pre, frames, taps, hit, signals, rounding,        \* history
    updates, passedIds, usedIds

state == <<gameStarted, gameOver, score, pipes, pipeIdCounter, queue>>
refs == <<birdYValue, birdVelocity, gameOverRef>>
closure == <<animationFrameRef, hasCollided, currentPipeIdCounter,
             oldHasCollided, oldCounter>>
commit == <<rendered, effectsPending, lastDeps>>
history == <<op, pre, frames, taps, hit, signals, rounding,
             updates, passedIds, usedIds>>
vars == <<screen, state, refs, closure, commit, history>>

\* --------------------------------------------------------------- helpers
Min(a, b) == IF a < b THEN a ELSE b

\* The ground and ceiling boundaries of the bird's centre (lines 137, 146).
GroundY == (SCREEN_HEIGHT - GROUND_HEIGHT) * Scale - (BIRD_COLLISION_SIZE * Scale) \div 2
CeilingY == (BIRD_COLLISION_SIZE * Scale) \div 2

\* The horizontal extent of the bird's collision box (lines 157-158).
birdLeft == BIRD_START_X - BIRD_COLLISION_SIZE \div 2
birdRight == BIRD_START_X + BIRD_COLLISION_SIZE \div 2

\* Variant: no margin above the gap.
TopHeightNoMargin(r) ==
    r * (SCREEN_HEIGHT - PIPE_GAP - GROUND_HEIGHT - BOTTOM_MARGIN)

\* Math.random() * (SCREEN_HEIGHT - PIPE_GAP - GROUND_HEIGHT - 100) + 50, for
\* Math.random() = r / 100 (lines 66, 219-220).
TopHeight(r) ==
    r * (SCREEN_HEIGHT - PIPE_GAP - GROUND_HEIGHT - BOTTOM_MARGIN) + TOP_MARGIN * Cent

\* A new pipe (lines 67-73, 221-227).
NewPipe(id, x, topHeight) ==
    [id |-> id, x |-> x, topHeight |-> topHeight,
     bottomHeight |-> (SCREEN_HEIGHT - GROUND_HEIGHT) * Cent - topHeight
                      - PIPE_GAP * Cent,
     passed |-> FALSE]

\* Variant: the ids count from 1.
InitialPipesFromOne(rs) ==
    [i \in 1..SEED_COUNT |->
        NewPipe(i,
                SCREEN_WIDTH + FIRST_PIPE_OFFSET + (i - 1) * SPAWN_DISTANCE,
                TopHeight(rs[i]))]

\* The three pipes of a new game, for the random draws rs (lines 61-74).
InitialPipes(rs) ==
    [i \in 1..SEED_COUNT |->
        NewPipe(i - 1,
                SCREEN_WIDTH + FIRST_PIPE_OFFSET + (i - 1) * SPAWN_DISTANCE,
                TopHeight(rs[i]))]

\* Variant: the elapsed time is not capped.
DeltaTimeUncapped(elapsed) == elapsed

\* deltaTime: the elapsed milliseconds, capped (line 128).
DeltaTime(elapsed) == Min(elapsed, DELTA_CAP)

\* Variant: no gravity.
GravityOff(velocity, deltaTime) == velocity

\* The velocity after gravity: birdVelocity + GRAVITY * (deltaTime / 16.67)
\* (line 132).
Gravity(velocity, deltaTime) ==
    velocity + (GRAVITY_X100 * deltaTime * Scale) \div FRAME_MS_X100

\* Variant: the passed flag is not consulted.
ScoresEveryFrame(pipe, newX) == newX + PIPE_WIDTH < BIRD_START_X

\* Is the pipe, at its new position newX, scored on this frame (line 173)?
Scores(pipe, newX) == ~pipe.passed /\ newX + PIPE_WIDTH < BIRD_START_X

\* Is the pipe at newX within the bird's horizontal span, with tolerance
\* (lines 184-194)?
HorizontalOverlap(newX) ==
    /\ ~(newX + PIPE_WIDTH < birdLeft - COLLISION_TOLERANCE)
    /\ ~(newX > birdRight + COLLISION_TOLERANCE)
    /\ birdRight > newX + COLLISION_TOLERANCE
    /\ birdLeft < newX + PIPE_WIDTH - COLLISION_TOLERANCE

\* Does the bird's vertical extent reach into the top or the bottom pipe by
\* more than the tolerance (lines 197-201)?
VerticalOverlap(pipe, birdTop, birdBottom) ==
    LET topPipeBottom == pipe.topHeight
        bottomPipeTop == (SCREEN_HEIGHT - GROUND_HEIGHT) * Cent - pipe.bottomHeight
    IN  \/ birdTop * Cent < (topPipeBottom - COLLISION_TOLERANCE * Cent) * Scale
        \/ birdBottom * Cent > (bottomPipeTop + COLLISION_TOLERANCE * Cent) * Scale

\* Variant: the scoring branch falls through to the collision test.
UpdatePipeNoEarlyReturn(pipe, birdTop, birdBottom) ==
    LET newX == pipe.x - PIPE_SPEED
        scored == Scores(pipe, newX)
    IN  [pipe |-> [pipe EXCEPT !.x = newX, !.passed = pipe.passed \/ scored],
         scored |-> scored,
         collided |-> HorizontalOverlap(newX)
                      /\ VerticalOverlap(pipe, birdTop, birdBottom)]

\* Variant: the pipe that is hit is returned where it was.
UpdatePipeStopsAtHit(pipe, birdTop, birdBottom) ==
    LET newX == pipe.x - PIPE_SPEED
        collided == HorizontalOverlap(newX)
                    /\ VerticalOverlap(pipe, birdTop, birdBottom)
    IN  IF Scores(pipe, newX)
        THEN [pipe |-> [pipe EXCEPT !.x = newX, !.passed = TRUE],
              scored |-> TRUE, collided |-> FALSE]
        ELSE [pipe |-> IF collided THEN pipe ELSE [pipe EXCEPT !.x = newX],
              scored |-> FALSE,
              collided |-> collided]

\* The callback of prevPipes.map (lines 169-211): the moved pipe, whether it
\* was scored and whether it was hit.  A pipe scored on this frame returns
\* before the collision test.
UpdatePipe(pipe, birdTop, birdBottom) ==
    LET newX == pipe.x - PIPE_SPEED
    IN  IF Scores(pipe, newX)
        THEN [pipe |-> [pipe EXCEPT !.x = newX, !.passed = TRUE],
              scored |-> TRUE, collided |-> FALSE]
        ELSE [pipe |-> [pipe EXCEPT !.x = newX],
              scored |-> FALSE,
              collided |-> HorizontalOverlap(newX)
                           /\ VerticalOverlap(pipe, birdTop, birdBottom)]

\* The bird's pose set by the starting tap (lines 259-261), by Restart
\* (lines 281-283) and by the game loop effect while the game is not started
\* (lines 105-109).
\* Variant: the starting tap also jumps.
StartPoseWithJump == [y |-> BIRD_START_Y, velocity |-> JUMP_STRENGTH * Scale]

StartPose == [y |-> BIRD_START_Y, velocity |-> 0]
RestartPose == [y |-> BIRD_START_Y, velocity |-> 0]
IdlePose(y, velocity) == [y |-> BIRD_START_Y, velocity |-> 0]

\* The obstacle list Restart sets (line 279).
RestartPipes(prevPipes) == <<>>

\* Variant: the impulse is added to the velocity.
JumpVelocityAdded(velocity) == velocity + JUMP_STRENGTH * Scale

\* The velocity a jump sets (line 271).
JumpVelocity(velocity) == JUMP_STRENGTH * Scale

\* The comparisons of the double currentY with the two boundaries (lines 137,
\* 146).  currentY is the exact sum and err the sign of the rounding error of
\* the double: the double is below, on or above the exact sum.
OnGround(currentY, err) ==
    currentY > GroundY \/ (currentY = GroundY /\ err >= 0)
AtCeiling(currentY, err) ==
    currentY < CeilingY \/ (currentY = CeilingY /\ err <= 0)

\* Variant: no clamp at the ceiling.
BirdPosYUnclamped(currentY, err) == currentY

\* The bird's position after the ceiling check (lines 146-152, 156).
BirdPosY(currentY, err) == IF AtCeiling(currentY, err) THEN CeilingY ELSE currentY

\* Variant: the velocity is kept at the ceiling.
BirdVelocityKept(currentY, velocity, err) == velocity

\* The bird's velocity after the ceiling check (lines 146-152).
BirdVelocityY(currentY, velocity, err) ==
    IF AtCeiling(currentY, err) THEN 0 ELSE velocity

\* Variants: the filter keeps a pipe for one more width; the filter tests
\* the leading edge.
OnScreenOneMoreWidth(pipe) == pipe.x + PIPE_WIDTH > -PIPE_WIDTH
OnScreenLeadingEdge(pipe) == pipe.x > 0

\* The filter of line 214.
OnScreen(pipe) == pipe.x + PIPE_WIDTH > 0

\* Variant: a new pipe is due only when the last one has left the screen.
SpawnDueOffScreen(kept) ==
    /\ Len(kept) > 0
    /\ kept[Len(kept)].x + PIPE_WIDTH < 0

\* Is a new pipe due after the pipes `kept` (lines 217-218)?
SpawnDue(kept) ==
    /\ Len(kept) > 0
    /\ kept[Len(kept)].x < SCREEN_WIDTH - SPAWN_DISTANCE

\* Variant: a restarted loop counts on from the seeding.
LoopStartCounterStale == SEED_COUNT

\* The pipe id a newly started game loop counts on from: the pipeIdCounter of
\* the render whose effect starts the loop (line 117).
LoopStartCounter == rendered.pipeIdCounter

\* ------------------------------------------------------- derived notions
\* The state as last set: what the next render starts from.
GameState ==
    IF gameOver THEN "Over"
    ELSE IF gameStarted THEN "Running"
    ELSE "Idle"

Snapshot ==
    [gameStarted |-> gameStarted, gameOver |-> gameOver, score |-> score,
     pipeIdCounter |-> pipeIdCounter]

\* The state of the last commit: what the screen shows and the handlers read.
ShownState ==
    IF rendered.gameOver THEN "Over"
    ELSE IF rendered.gameStarted THEN "Running"
    ELSE "Idle"

\* A render is pending: some state was set, or an update of pipes queued,
\* since the last one.
Dirty == Snapshot # rendered \/ queue # <<>>

\* The dependencies of the effects as of the last commit (lines 79, 88, 250).
Deps ==
    [gameStarted |-> rendered.gameStarted, gameOver |-> rendered.gameOver,
     pipeIdCounter |-> rendered.pipeIdCounter, length |-> Len(pipes)]

\* What the history variable pre remembers of the state before an event.
Before ==
    [state |-> GameState, shown |-> ShownState, score |-> score,
     pipes |-> pipes, birdYValue |-> birdYValue, birdVelocity |-> birdVelocity]

\* The frames of a run the model follows, and whether it follows a jump tap
\* now.
FrameLimit ==
    IF screen = Desktop THEN MaxFramesWide
    ELSE IF screen = Handset THEN MaxFramesPlay
    ELSE MaxFrames
TapFollowed ==
    IF screen = Desktop
    THEN birdVelocity > 0 /\ birdYValue >= GroundY - LowZone * Scale
    ELSE IF screen = Handset
    THEN frames \in TapFrames /\ taps < Cardinality({f \in TapFrames : f <= frames})
    ELSE taps < MaxTaps

\* ------------------------------------------------------- the update queue
\* setPipes with an updater function (line 163): the function runs at the next
\* render, with the bird box the frame captured (lines 156-160) and the
\* variables of the game loop closure that queued it.  old: the effect has
\* replaced that closure since.
UpdateEntry(birdTop, birdBottom) ==
    [kind |-> "update", birdTop |-> birdTop, birdBottom |-> birdBottom,
     old |-> FALSE, value |-> <<>>]

\* setPipes with a value (lines 75, 279).
ValueEntry(value) ==
    [kind |-> "value", birdTop |-> 0, birdBottom |-> 0,
     old |-> FALSE, value |-> value]

\* A value set right after a value takes its place: the first one has no
\* effect on any render.
Enqueue(q, e) ==
    IF e.kind = "value" /\ Len(q) > 0 /\ q[Len(q)].kind = "value"
    THEN [q EXCEPT ![Len(q)] = e]
    ELSE Append(q, e)

\* The updater of setPipes (lines 163-236), run by a render on the state acc
\* the render has so far: it maps every pipe, also after one has collided,
\* then filters and spawns; r is the random draw of a spawned pipe.  setScore,
\* handleGameOver and setPipeIdCounter, called from within, take effect in the
\* same render.
ApplyUpdate(acc, e, r) ==
    LET collidedBefore == IF e.old THEN acc.oldHasCollided ELSE acc.hasCollided
        counter == IF e.old THEN acc.oldCounter ELSE acc.currentPipeIdCounter
        prevPipes == acc.pipes
        results == [i \in 1..Len(prevPipes) |->
                       UpdatePipe(prevPipes[i], e.birdTop, e.birdBottom)]
        hits == {i \in 1..Len(prevPipes) : results[i].collided}
        collided == hits # {}
        \* handleGameOver is called for a pipe that is hit while hasCollided
        \* is still false (lines 202-205): for the first such pipe of the map.
        signalled == {i \in hits : \A j \in hits : j >= i}
        scored == {i \in 1..Len(prevPipes) : results[i].scored}
        updatedPipes == [i \in 1..Len(prevPipes) |-> results[i].pipe]
        kept == SelectSeq(updatedPipes, OnScreen)
        spawn == SpawnDue(kept)
    IN  IF collidedBefore THEN acc
        ELSE [acc EXCEPT
                 !.pipes = IF spawn
                           THEN Append(kept, NewPipe(counter, SCREEN_WIDTH,
                                                     TopHeight(r)))
                           ELSE kept,
                 !.score = @ + Cardinality(scored),
                 !.pipeIdCounter = IF spawn THEN counter + 1 ELSE @,
                 !.currentPipeIdCounter = IF spawn /\ ~e.old THEN counter + 1 ELSE @,
                 !.oldCounter = IF spawn /\ e.old THEN counter + 1 ELSE @,
                 !.hasCollided = IF e.old THEN @ ELSE collided,
                 !.oldHasCollided = IF e.old THEN collided ELSE @,
                 !.gameOver = (collided \/ @),
                 !.gameStarted = (~collided /\ @),
                 !.hit = IF collided THEN "pipe" ELSE @,
                 !.signals = @ + Cardinality(signalled),
                 !.updates = @ + 1,
                 !.passedIds = @ \cup {prevPipes[i].id : i \in scored},
                 !.usedIds = IF spawn THEN @ \cup {counter} ELSE @]

ApplyValue(acc, e) ==
    [acc EXCEPT !.pipes = e.value,
                !.usedIds = IF Len(e.value) > 0
                            THEN {e.value[i].id : i \in 1..Len(e.value)}
                            ELSE @]

\* The queue is applied in the order of the calls.
RECURSIVE ApplyQueue(_, _, _)
ApplyQueue(acc, q, r) ==
    IF q = <<>> THEN acc
    ELSE ApplyQueue(IF Head(q).kind = "update"
                    THEN ApplyUpdate(acc, Head(q), r)
                    ELSE ApplyValue(acc, Head(q)),
                    Tail(q), r)

\* ------------------------------------------------------------------ Init
\* The component after its first render and effects.
Mounted ==
    /\ gameStarted = FALSE
    /\ gameOver = FALSE
    /\ score = 0
    /\ pipes = <<>>
    /\ pipeIdCounter = 0
    /\ queue = <<>>
    /\ birdYValue = BIRD_START_Y
    /\ birdVelocity = 0
    /\ gameOverRef = FALSE
    /\ animationFrameRef = FALSE
    /\ hasCollided = FALSE
    /\ currentPipeIdCounter = 0
    /\ oldHasCollided = FALSE
    /\ oldCounter = 0
    /\ rendered = [gameStarted |-> FALSE, gameOver |-> FALSE, score |-> 0,
                   pipeIdCounter |-> 0]
    /\ effectsPending = FALSE
    /\ lastDeps = [gameStarted |-> FALSE, gameOver |-> FALSE,
                   pipeIdCounter |-> 0, length |-> 0]
    /\ op = "mount"
    /\ pre = [state |-> "Idle", shown |-> "Idle", score |-> 0, pipes |-> <<>>,
              birdYValue |-> BIRD_START_Y, birdVelocity |-> 0]
    /\ frames = 0
    /\ taps = 0
    /\ hit = "none"
    /\ signals = 0
    /\ rounding = 0
    /\ updates = 0
    /\ passedIds = {}
    /\ usedIds = {}

Init == screen = Phone /\ Mounted
InitWide == screen = Desktop /\ Mounted
InitStream == screen \in {Handset, Desktop} /\ Mounted

\* ------------------------------------------------------------- handleJump
\* A tap anywhere on the screen (lines 253-272).  The handler reads
\* gameStarted and gameOver as of the last commit.
handleJump ==
    /\ (rendered.gameStarted /\ ~rendered.gameOver) => TapFollowed
    /\ IF ~rendered.gameStarted
       THEN /\ gameStarted' = TRUE
            /\ gameOver' = FALSE
            /\ score' = 0
            /\ birdYValue' = StartPose.y
            /\ birdVelocity' = StartPose.velocity
            /\ frames' = 0
            /\ taps' = 0
            /\ passedIds' = {}
            /\ usedIds' = {}
       ELSE IF rendered.gameOver
       THEN UNCHANGED <<gameStarted, gameOver, score, birdYValue, birdVelocity,
                        frames, taps, passedIds, usedIds>>
       ELSE /\ birdVelocity' = JumpVelocity(birdVelocity)
            /\ taps' = taps + 1
            /\ UNCHANGED <<gameStarted, gameOver, score, birdYValue,
                           frames, passedIds, usedIds>>
    /\ op' = "tap"
    /\ pre' = Before
    /\ hit' = "none"
    /\ signals' = 0
    /\ rounding' = 0
    /\ updates' = 0
    /\ UNCHANGED <<screen, pipes, queue, pipeIdCounter, gameOverRef, closure, commit>>

\* ---------------------------------------------------------- handleRestart
\* A press of the Restart button, shown while the committed gameOver is
\* true (lines 275-285, 363-373).
handleRestart ==
    /\ rendered.gameOver
    /\ gameStarted' = FALSE
    /\ gameOver' = FALSE
    /\ score' = 0
    /\ queue' = Enqueue(queue, ValueEntry(RestartPipes(pipes)))
    /\ birdYValue' = RestartPose.y
    /\ birdVelocity' = RestartPose.velocity
    /\ frames' = 0
    /\ taps' = 0
    /\ passedIds' = {}
    /\ usedIds' = {}
    /\ op' = "restart"
    /\ pre' = Before
    /\ hit' = "none"
    /\ signals' = 0
    /\ rounding' = 0
    /\ updates' = 0
    /\ UNCHANGED <<screen, pipes, pipeIdCounter, gameOverRef, closure, commit>>

\* ---------------------------------------------------------------- gameLoop
\* One animation frame callback (lines 121-241), elapsed milliseconds after
\* the last one, err the sign of the rounding error of the double position
\* it computes: gravity, the ground and the ceiling, then the updater of
\* setPipes is queued for the next render and the next frame is requested.
\* hasCollided is still false at line 238 unless the bird is on the ground:
\* the updater has not run yet.  Further frames may run before the render.
gameLoop(elapsed, err) ==
    /\ animationFrameRef
    /\ Len(queue) < MaxQueued
    /\ frames < FrameLimit
    /\ op' = "frame"
    /\ pre' = Before
    /\ updates' = 0
    /\ UNCHANGED <<screen, gameOverRef, commit, taps, pipes, score, pipeIdCounter,
                   currentPipeIdCounter, oldHasCollided, oldCounter,
                   passedIds, usedIds>>
    /\ IF gameOverRef \/ hasCollided
       THEN /\ animationFrameRef' = FALSE
            /\ hit' = "none"
            /\ signals' = 0
            /\ rounding' = 0
            /\ UNCHANGED <<gameStarted, gameOver, queue, birdYValue, birdVelocity,
                           hasCollided, frames>>
       ELSE
       LET velocity == Gravity(birdVelocity, DeltaTime(elapsed))
           currentY == birdYValue + velocity
       IN  /\ frames' = frames + 1
           /\ rounding' = err
           /\ IF OnGround(currentY, err)
              THEN \* ground collision: handleGameOver, no further update
                   /\ birdVelocity' = velocity
                   /\ birdYValue' = currentY
                   /\ hasCollided' = TRUE
                   /\ gameOver' = TRUE
                   /\ gameStarted' = FALSE
                   /\ animationFrameRef' = FALSE
                   /\ hit' = "ground"
                   /\ signals' = 1
                   /\ UNCHANGED queue
              ELSE
              LET birdPosY == BirdPosY(currentY, err)
                  birdTop == birdPosY - (BIRD_COLLISION_SIZE * Scale) \div 2
                  birdBottom == birdPosY + (BIRD_COLLISION_SIZE * Scale) \div 2
              IN  /\ birdVelocity' = BirdVelocityY(currentY, velocity, err)
                  /\ birdYValue' = birdPosY
                  /\ queue' = Enqueue(queue, UpdateEntry(birdTop, birdBottom))
                  /\ animationFrameRef' = TRUE
                  /\ hit' = "none"
                  /\ signals' = 0
                  /\ UNCHANGED <<gameStarted, gameOver, hasCollided>>

\* ------------------------------------------------------------------ Render
\* A render and its commit: the queued updates of pipes run in order, on the
\* pipes of the last render, and what they set is part of this commit.  The
\* effects whose dependencies changed are left pending.  r is the random draw
\* of a pipe an updater spawns.
Render(r) ==
    /\ ~effectsPending
    /\ Dirty
    /\ LET start == [pipes |-> pipes, score |-> score,
                     pipeIdCounter |-> pipeIdCounter,
                     gameStarted |-> gameStarted, gameOver |-> gameOver,
                     hasCollided |-> hasCollided,
                     currentPipeIdCounter |-> currentPipeIdCounter,
                     oldHasCollided |-> oldHasCollided, oldCounter |-> oldCounter,
                     hit |-> "none", signals |-> 0, updates |-> 0,
                     passedIds |-> passedIds, usedIds |-> usedIds]
           end == ApplyQueue(start, queue, r)
           shown == [gameStarted |-> end.gameStarted, gameOver |-> end.gameOver,
                     score |-> end.score, pipeIdCounter |-> end.pipeIdCounter]
       IN  /\ pipes' = end.pipes
           /\ score' = end.score
           /\ pipeIdCounter' = end.pipeIdCounter
           /\ gameStarted' = end.gameStarted
           /\ gameOver' = end.gameOver
           /\ hasCollided' = end.hasCollided
           /\ currentPipeIdCounter' = end.currentPipeIdCounter
           /\ hit' = end.hit
           /\ signals' = end.signals
           /\ updates' = end.updates
           /\ passedIds' = end.passedIds
           /\ usedIds' = end.usedIds
           /\ rendered' = shown
           /\ lastDeps' = Deps
           /\ effectsPending' =
                 (Deps # [gameStarted |-> end.gameStarted,
                          gameOver |-> end.gameOver,
                          pipeIdCounter |-> end.pipeIdCounter,
                          length |-> Len(end.pipes)])
    /\ queue' = <<>>
    /\ oldHasCollided' = FALSE
    /\ oldCounter' = 0
    /\ op' = "render"
    /\ pre' = Before
    /\ rounding' = 0
    /\ UNCHANGED <<screen, refs, animationFrameRef, frames, taps>>

\* The random draws that matter in a render: one value unless a pipe may
\* spawn.
SpawnDraws ==
    IF Len(queue) > 0 /\ Len(pipes) > 0
       /\ pipes[Len(pipes)].x - PIPE_SPEED * Len(queue) < SCREEN_WIDTH - SPAWN_DISTANCE
    THEN RandomSamples ELSE {0}

\* ----------------------------------------------------------------- Effects
\* The passive effects of the last commit, run in the order of their
\* declaration with the state of that render: the seeding (lines 59-79),
\* gameOverRef (lines 86-88) and the game loop (lines 97-250).  An effect runs
\* when one of its dependencies differs from the render before.
Seeding ==
    /\ (rendered.gameStarted # lastDeps.gameStarted
        \/ rendered.gameOver # lastDeps.gameOver)
    /\ rendered.gameStarted /\ ~rendered.gameOver

LoopDepsChanged == Deps # lastDeps

\* The updaters still queued belong to the closure the cleanup leaves behind.
Outdated(q) ==
    [i \in 1..Len(q) |->
        IF q[i].kind = "update" THEN [q[i] EXCEPT !.old = TRUE] ELSE q[i]]

HasUpdates(q) == \E i \in 1..Len(q) : q[i].kind = "update"

Effects(rs) ==
    /\ effectsPending
    /\ effectsPending' = FALSE
    /\ lastDeps' = Deps
    /\ queue' = LET q == IF LoopDepsChanged THEN Outdated(queue) ELSE queue
                IN  IF Seeding
                    THEN Enqueue(q, ValueEntry(InitialPipes(rs)))
                    ELSE q
    /\ pipeIdCounter' = IF Seeding THEN SEED_COUNT ELSE pipeIdCounter
    /\ gameOverRef' = rendered.gameOver
    /\ IF ~LoopDepsChanged
       THEN UNCHANGED <<closure, birdYValue, birdVelocity>>
       ELSE /\ oldHasCollided' = (HasUpdates(queue) /\ hasCollided)
            /\ oldCounter' = IF HasUpdates(queue) THEN currentPipeIdCounter ELSE 0
            /\ IF ~rendered.gameStarted \/ rendered.gameOver
               THEN /\ animationFrameRef' = FALSE
                    /\ birdYValue' = IF ~rendered.gameStarted
                                     THEN IdlePose(birdYValue, birdVelocity).y
                                     ELSE birdYValue
                    /\ birdVelocity' = IF ~rendered.gameStarted
                                       THEN IdlePose(birdYValue, birdVelocity).velocity
                                       ELSE birdVelocity
                    /\ UNCHANGED <<hasCollided, currentPipeIdCounter>>
               ELSE IF Len(pipes) = 0
               THEN /\ animationFrameRef' = FALSE
                    /\ UNCHANGED <<hasCollided, currentPipeIdCounter,
                                   birdYValue, birdVelocity>>
               ELSE /\ animationFrameRef' = TRUE
                    /\ hasCollided' = FALSE
                    /\ currentPipeIdCounter' = LoopStartCounter
                    /\ UNCHANGED <<birdYValue, birdVelocity>>
    /\ op' = "effects"
    /\ pre' = Before
    /\ hit' = "none"
    /\ signals' = 0
    /\ rounding' = 0
    /\ updates' = 0
    /\ frames' = IF LoopDepsChanged /\ ~rendered.gameStarted THEN 0 ELSE frames
    /\ UNCHANGED <<screen, gameStarted, gameOver, score, pipes, rendered,
                   taps, passedIds, usedIds>>

SeedDraws == IF Seeding THEN SeedSamples ELSE {<<0, 0, 0>>}

\* -------------------------------------------------------------------- Next
Tap == handleJump
Restart == handleRestart
FrameTimes ==
    IF frames = 0 THEN FirstFrameMs
    ELSE IF frames < VariedFrames THEN FrameMs
    ELSE {SteadyMs}
\* The rounding error of the frame's double arithmetic matters when the
\* exact position is on a boundary; its sign is then any of the three.
RoundingErrors(elapsed) ==
    LET currentY == birdYValue + Gravity(birdVelocity, DeltaTime(elapsed))
    IN  IF ~(gameOverRef \/ hasCollided)
           /\ (currentY = CeilingY \/ currentY = GroundY)
        THEN {-1, 0, 1} ELSE {0}
Frame ==
    \E elapsed \in FrameTimes :
        \E err \in RoundingErrors(elapsed) : gameLoop(elapsed, err)
Commit == \E r \in SpawnDraws : Render(r)
Passive == \E rs \in SeedDraws : Effects(rs)

Next == Tap \/ Restart \/ Frame \/ Commit \/ Passive

Spec == Init /\ [][Next]_vars
SpecWide == InitWide /\ [][Next]_vars
SpecStream == InitStream /\ [][Next]_vars

\* =================================================================== claims
\* The game state a claim speaks of is the committed one (ShownState): the
\* screen the player taps on.

C1_Step ==
    (ShownState = "Over" /\ ~Dirty) =>
        /\ op' = "tap" =>
              UNCHANGED <<gameStarted, gameOver, score, pipes, birdYValue, birdVelocity>>
        /\ \/ GameState' = "Over"
           \/ GameState' = "Idle" /\ op' = "restart"

\* C1 (as stated): a tap while the game is Over changes nothing (state,
\* score, obstacle list, player position and velocity), and the only step
\* out of Over is a restart, to Idle.
C1_TapInOverIsNoOp == [][C1_Step]_vars

C2_Step ==
    (ShownState = "Idle" /\ GameState = "Idle" /\ op' = "tap") =>
        /\ GameState' = "Running"
        /\ score' = 0
        /\ birdYValue' = BIRD_START_Y
        /\ birdVelocity' = 0

\* C2: a tap while Idle leads to Running with score 0, the player at the
\* start position and velocity 0 (no jump impulse on the starting tap).
C2_TapInIdleStarts == [][C2_Step]_vars

C2_Witness ==
    /\ op = "tap"
    /\ pre.state = "Idle"
    /\ GameState = "Running"
    /\ score = 0
    /\ birdYValue = BIRD_START_Y
    /\ birdVelocity = 0

C3_Step ==
    (ShownState = "Running" /\ op' = "tap") =>
        /\ birdVelocity' = JUMP_STRENGTH * Scale
        /\ UNCHANGED <<birdYValue, pipes, score, gameStarted, gameOver>>

\* C3: a tap while Running sets the velocity to the jump constant whatever
\* it was before, and leaves position, obstacle list, score and game state
\* as they were.
C3_TapInRunningJumps == [][C3_Step]_vars

\* A jump taken while falling: the velocity before the tap was positive.
C3_Witness ==
    /\ op = "tap"
    /\ pre.state = "Running"
    /\ pre.birdVelocity > 0
    /\ birdVelocity = JUMP_STRENGTH * Scale
    /\ birdYValue = pre.birdYValue
    /\ birdYValue # BIRD_START_Y

IdleWorld ==
    /\ pipes = <<>>
    /\ score = 0
    /\ birdYValue = BIRD_START_Y
    /\ birdVelocity = 0

\* The restart itself: the flags, the score and the pose are reset at once,
\* the empty obstacle list is queued for the next render.
C4_RestartStep ==
    op' = "restart" =>
        /\ GameState' = "Idle"
        /\ score' = 0
        /\ birdYValue' = BIRD_START_Y
        /\ birdVelocity' = 0
        /\ queue'[Len(queue')] = ValueEntry(<<>>)

\* The render after a restart (Idle is set while Over is shown) shows Idle.
C4_RenderStep ==
    (GameState = "Idle" /\ ShownState = "Over" /\ op' = "render") =>
        /\ ShownState' = "Idle"
        /\ pipes' = <<>>
        /\ score' = 0

\* Idle is left only by the render that follows a tap.
C4_IdleStep ==
    ShownState = "Idle" =>
        \/ ShownState' = "Idle" /\ pipes' = <<>> /\ op' # "frame"
        \/ op' = "render" /\ ShownState' = "Running" /\ pipes' = <<>>

\* Once the effects of the Idle render have run, the world is at rest.
C4_Inv ==
    (ShownState = "Idle" /\ ~effectsPending) => (IdleWorld /\ ~animationFrameRef)

\* C4: restart leads to Idle with no obstacles, score 0 and the player at
\* the start pose, and an Idle game stays so (no physics, no obstacles
\* seeded) until a tap.
C4_RestartToIdle ==
    []C4_Inv /\ [][C4_RestartStep /\ C4_RenderStep /\ C4_IdleStep]_vars

\* Idle again, committed, after a game that was played and restarted.
C4_Witness ==
    /\ GameState = "Idle"
    /\ ShownState = "Idle"
    /\ ~effectsPending
    /\ op = "effects"
    /\ pre.shown = "Idle"
    /\ pipeIdCounter = SEED_COUNT
    /\ IdleWorld
    /\ ~animationFrameRef

\* What the effects of an Idle or Over commit leave: no frame requested, the
\* player at the start pose.
C5_Inv ==
    (ShownState \in {"Idle", "Over"} /\ ~effectsPending) =>
        /\ ~animationFrameRef
        /\ birdYValue = BIRD_START_Y
        /\ birdVelocity = 0

C5_Step ==
    ShownState \in {"Idle", "Over"} =>
        /\ op' = "frame" => UNCHANGED <<birdYValue, birdVelocity, queue>>
        /\ op' = "render" => updates' = 0

\* C5 (as stated): while Idle or Over is shown a frame does no physics and
\* no world update: no frame callback moves the player or queues an update
\* of the obstacles, no render runs such an update, and the player rests at
\* the start pose.
C5_NoTickOutsideRunning == []C5_Inv /\ [][C5_Step]_vars

\* The obstacles of pipes' that were in pipes, not yet passed, and are passed.
NewlyPassed ==
    {j \in 1..Len(pipes') :
        /\ pipes'[j].passed
        /\ \E i \in 1..Len(pipes) : pipes[i].id = pipes'[j].id /\ ~pipes[i].passed}

C6_Inv ==
    /\ score = Cardinality(passedIds)
    /\ \A i \in 1..Len(pipes) :
          pipes[i].passed <=> pipes[i].x + PIPE_WIDTH < BIRD_START_X
    /\ (ShownState = "Running" /\ GameState = "Running" /\ frames > 0
        /\ \A k \in 1..Len(queue) : queue[k].kind # "value") =>
          \A i \in 1..Len(pipes) : pipes[i].passed <=> pipes[i].id \in passedIds

C6_Step ==
    IF op' = "render"
    THEN /\ (\A k \in 1..Len(queue) : queue[k].kind = "update") =>
               \A i \in 1..Len(pipes) : \A j \in 1..Len(pipes') :
                   (pipes[i].id = pipes'[j].id /\ pipes[i].passed) => pipes'[j].passed
         /\ score' = score + Cardinality(NewlyPassed)
    ELSE score' = score \/ (score' = 0 /\ op' \in {"tap", "restart"})

\* C6: within a run an obstacle's passed flag goes from false to true at
\* most once, on the first frame that leaves its trailing edge left of the
\* player's x, and never back; each such step adds exactly 1 to the score
\* and nothing else changes the score, so the score is the number of
\* obstacles of the run marked passed, pruned ones included.
C6_ScoreCountsPassed == []C6_Inv /\ [][C6_Step]_vars

\* The first obstacle was scored and has since been pruned.
C6_Witness ==
    /\ GameState = "Running"
    /\ score = 1
    /\ passedIds = {0}
    /\ Len(pipes) = SEED_COUNT - 1
    /\ \A i \in 1..Len(pipes) : pipes[i].id # 0 /\ ~pipes[i].passed

\* C7: after every frame on which no ground collision is signaled, the
\* player's Y lies within [half the collision height, screen height -
\* ground height - half the collision height].
C7_PlayerWithinBounds ==
    ((op = "frame" /\ hit # "ground") \/ GameState = "Running") =>
        (CeilingY <= birdYValue /\ birdYValue <= GroundY)

\* A frame that carried the player to the ceiling, where it was clamped.
C7_Witness ==
    /\ op = "frame"
    /\ hit = "none"
    /\ GameState = "Running"
    /\ birdYValue = CeilingY
    /\ birdVelocity = 0
    /\ pre.birdYValue > CeilingY
    /\ pre.birdVelocity < 0

\* Does the player's collision box reach into the top or bottom segment of
\* the obstacle by more than the tolerance, in both directions?
OverlapsBox(pipe, birdTop, birdBottom) ==
    LET gapTop == pipe.topHeight
        gapBottom == (SCREEN_HEIGHT - GROUND_HEIGHT) * Cent - pipe.bottomHeight
    IN  /\ birdRight - pipe.x > COLLISION_TOLERANCE
        /\ (pipe.x + PIPE_WIDTH) - birdLeft > COLLISION_TOLERANCE
        /\ \/ gapTop * Scale - birdTop * Cent > COLLISION_TOLERANCE * Cent * Scale
           \/ birdBottom * Cent - gapBottom * Scale > COLLISION_TOLERANCE * Cent * Scale

Overlaps(pipe) ==
    OverlapsBox(pipe, birdYValue - (BIRD_COLLISION_SIZE * Scale) \div 2,
                birdYValue + (BIRD_COLLISION_SIZE * Scale) \div 2)

\* C8 (as stated): whenever the game is still Running after a tick (the
\* render that ran the frame's update of the obstacles), the player's
\* collision box overlaps no obstacle segment by more than the tolerance and
\* is above the ground boundary.
C8_HitEndsGame ==
    (op = "render" /\ updates > 0 /\ GameState = "Running") =>
        /\ birdYValue < GroundY
        /\ \A i \in 1..Len(pipes) : ~Overlaps(pipes[i])

\* C9: after every tick no obstacle of the list has its trailing edge at or
\* left of 0 (so none has x < -obstacleWidth): such an obstacle is removed
\* by the update that moves it there.
C9_OffScreenPruned ==
    \A i \in 1..Len(pipes) : pipes[i].x + PIPE_WIDTH > 0

\* The render that pruned the first obstacle: the next one now leads the
\* list.
C9_Witness ==
    /\ op = "render"
    /\ updates > 0
    /\ hit = "none"
    /\ Len(pipes) = SEED_COUNT - 1
    /\ pipes[1].id = 1
    /\ pipes[1].x =
          SCREEN_WIDTH + FIRST_PIPE_OFFSET + SPAWN_DISTANCE - PIPE_SPEED * frames
    /\ pipes[1].x - SPAWN_DISTANCE + PIPE_WIDTH <= 0
    /\ pipes[1].x - SPAWN_DISTANCE + PIPE_WIDTH + PIPE_SPEED * updates > 0

\* A tick: the render that runs the one update a frame has queued.
OneTick == op' = "render" /\ updates' = 1 /\ Len(queue) = 1

C10_OriginalStep ==
    OneTick =>
        \A i \in 1..Len(pipes) :
            pipes[i].x = -5 =>
                \A j \in 1..Len(pipes') : pipes'[j].id # pipes[i].id

\* C10 (as stated): an obstacle at x = -5, of width 60, is removed from the
\* obstacle list on the next tick.
C10_RemovedAtMinus5 == [][C10_OriginalStep]_vars

C10_Step ==
    OneTick =>
        \A i \in 1..Len(pipes) :
            /\ pipes[i].x = -5 =>
                  \E j \in 1..Len(pipes') :
                      /\ pipes'[j].id = pipes[i].id
                      /\ pipes'[j].x = -5 - PIPE_SPEED
            /\ (\E j \in 1..Len(pipes') : pipes'[j].id = pipes[i].id)
                  <=> pipes[i].x - PIPE_SPEED + PIPE_WIDTH > 0

\* C10 (amended): an obstacle at x = -5, of width 60, is still in the list
\* after the next tick, at x = -8; a tick removes exactly the obstacles
\* whose trailing edge x + 60 it moves to 0 or left of 0.
C10_KeptAtMinus5 == [][C10_Step]_vars

\* The obstacle that was at x = -5 is in the list at x = -8 after a tick.
C10_Witness ==
    /\ op = "render"
    /\ updates = 1
    /\ hit = "none"
    /\ Len(pipes) = SEED_COUNT
    /\ pipes[1].id = 0
    /\ pipes[1].x = -5 - PIPE_SPEED
    /\ pipes[1].passed

\* ---------------------------------------------------------------------
\* C11: a tap on the start screen leaves the pipe list empty right after the
\* tap; the seed step (the seeding effect of the next commit and the render
\* of the list it sets) installs exactly three pipes, ids 0, 1, 2, at
\* x = SCREEN_WIDTH + 200, + 500, + 800, none passed, with score 0 and next
\* pipe id 3; and no frame of the game loop runs while the list is empty.
C11_Step ==
    /\ (ShownState = "Idle" /\ op' = "tap") =>
           /\ pipes' = <<>>
           /\ queue' = <<>>
           /\ GameState' = "Running"
    /\ (ShownState = "Running" /\ pre.shown = "Idle" /\ pipes = <<>>
        /\ op' = "effects") =>
           /\ Len(queue') = 1
           /\ queue'[1].kind = "value"
           /\ ~animationFrameRef'
    /\ (ShownState = "Running" /\ pipes = <<>> /\ op' = "render") =>
           /\ Len(pipes') = 3
           /\ \A i \in 1..3 :
                  /\ pipes'[i].id = i - 1
                  /\ pipes'[i].x = SCREEN_WIDTH + 200 + 300 * (i - 1)
                  /\ ~pipes'[i].passed
           /\ score' = 0
           /\ pipeIdCounter' = 3
    /\ (pipes = <<>> \/ ShownState = "Idle") => op' # "frame"

C11_SeedAfterTap == [][C11_Step]_vars

C11_Witness ==
    /\ op = "render"
    /\ pre.state = "Running"
    /\ pre.pipes = <<>>
    /\ Len(pipes) = 3
    /\ pipes[3].x = SCREEN_WIDTH + 800
    /\ pipeIdCounter = 3
    /\ frames = 0
    /\ ~animationFrameRef

\* ---------------------------------------------------------------------
\* C12: in a run in which the player never flaps, the bird starts at
\* SCREEN_HEIGHT / 2 with velocity 0, its Y never decreases from one frame to
\* the next, and the game is Over within a bounded number of frames: after n
\* frames the bird has fallen at least GRAVITY * (ms / 16.67) * n * (n + 1) / 2
\* for the shortest frame time ms, so the game is no longer Running once that
\* distance reaches the ground boundary.
ShortestFrameMs ==
    CHOOSE m \in FrameMs \cup FirstFrameMs :
        \A k \in FrameMs \cup FirstFrameMs : DeltaTime(m) <= DeltaTime(k)

Fallen(n) ==
    (GRAVITY_X100 * DeltaTime(ShortestFrameMs) * n * (n + 1)) \div 2

FallFrames ==
    CHOOSE n \in 0..FrameLimit :
        /\ BIRD_START_Y + Fallen(n) >= GroundY
        /\ \A k \in 0..(n - 1) : BIRD_START_Y + Fallen(k) < GroundY

C12_Inv ==
    /\ (GameState = "Running" /\ taps = 0) =>
          /\ frames = 0 => (birdYValue = BIRD_START_Y /\ birdVelocity = 0)
          /\ birdYValue >= BIRD_START_Y + Fallen(frames)
          /\ birdYValue < GroundY
    /\ (taps = 0 /\ frames >= FallFrames) => GameState = "Over"

C12_Step ==
    (GameState = "Running" /\ taps = 0 /\ op' = "frame") =>
        /\ birdYValue' >= birdYValue
        /\ frames' = frames + 1 \/ UNCHANGED <<birdYValue, birdVelocity, frames>>

C12_FallsToGround == []C12_Inv /\ [][C12_Step]_vars

C12_Witness ==
    /\ op = "frame"
    /\ taps = 0
    /\ hit = "ground"
    /\ GameState = "Over"
    /\ pre.state = "Running"
    /\ frames <= FallFrames
    /\ FallFrames < FrameLimit
    /\ birdYValue >= GroundY

\* ---------------------------------------------------------------------
\* C13: a pipe that is marked passed on a tick does not trigger a collision
\* on that tick: if the tick signals a pipe hit, then for every pipe newly
\* passed on it some other pipe, not newly passed, is the one the bird's box
\* reaches into.
C13_Step ==
    (OneTick /\ hit' = "pipe") =>
        \A j \in NewlyPassed :
            \E k \in 1..Len(pipes') :
                /\ k \notin NewlyPassed
                /\ OverlapsBox(pipes'[k], queue[1].birdTop, queue[1].birdBottom)

C13_ScoredDoesNotHit == [][C13_Step]_vars

\* A pipe was scored on the last tick while the bird's box reached into it,
\* and the tick signaled nothing.
C13_Witness ==
    /\ op = "render"
    /\ updates = 1
    /\ hit = "none"
    /\ score = pre.score + 1
    /\ \E i \in 1..Len(pipes) :
          /\ pipes[i].passed
          /\ pipes[i].x + PIPE_WIDTH + PIPE_SPEED >= BIRD_START_X
          /\ Overlaps(pipes[i])

\* ---------------------------------------------------------------------
\* The index in pipes of the first pipe within the bird's horizontal span
\* once moved: the pipe a pipe hit of the next tick is signaled for.
FirstInSpan ==
    CHOOSE i \in 1..Len(pipes) :
        /\ HorizontalOverlap(pipes[i].x - PIPE_SPEED)
        /\ \A k \in 1..(i - 1) : ~HorizontalOverlap(pipes[k].x - PIPE_SPEED)

\* C14 (as stated): once a tick signals a collision, ground or pipe, no
\* obstacle state is changed further on that tick: the pipes after the one
\* that was hit are not advanced, nothing is scored, pruned or spawned.
C14_OriginalStep ==
    /\ (op' = "frame" /\ hit' = "ground") =>
          UNCHANGED <<pipes, queue, score, pipeIdCounter>>
    /\ (OneTick /\ hit' = "pipe") =>
          /\ score' = score
          /\ pipeIdCounter' = pipeIdCounter
          /\ Len(pipes') = Len(pipes)
          /\ \A i \in (FirstInSpan + 1)..Len(pipes) : pipes'[i] = pipes[i]

C14_HitFreezesPipes == [][C14_OriginalStep]_vars

\* The pipes one ordinary update makes of the pipes now: all advanced by
\* PIPE_SPEED, then those left of the screen removed.
AdvancedPipes ==
    [i \in 1..Len(pipes) |-> [pipes[i] EXCEPT !.x = @ - PIPE_SPEED]]
KeptPipes == SelectSeq(AdvancedPipes, OnScreen)

\* C14 (amended): a tick signals at most one collision.  A ground hit is
\* signaled by the frame callback, which returns before the update of the
\* pipes is queued: the game is Over, no pipe is advanced, scored, pruned or
\* spawned and the callback requests no further frame.  A pipe hit is signaled
\* within the update of the pipes and does not cut it short: the game is
\* Over, and every pipe is advanced by PIPE_SPEED on that tick, the pipe that
\* was hit and the pipes after it included, and scoring, the filter and the
\* spawn rule apply as on any tick.
C14_Step ==
    /\ op' = "frame" =>
          /\ hit' \in {"none", "ground"}
          /\ signals' = IF hit' = "ground" THEN 1 ELSE 0
          /\ hit' = "ground" =>
                /\ GameState' = "Over"
                /\ ~animationFrameRef'
                /\ UNCHANGED <<pipes, queue, score, pipeIdCounter>>
    /\ op' = "render" =>
          /\ hit' \in {"none", "pipe"}
          /\ signals' <= updates'
          /\ hit' = "pipe" <=> signals' > 0
          /\ hit' = "pipe" => (GameState' = "Over" /\ ShownState' = "Over")
    /\ (OneTick /\ hit' = "pipe") =>
          /\ signals' = 1
          /\ Len(pipes') = Len(KeptPipes) + (IF SpawnDue(KeptPipes) THEN 1 ELSE 0)
          /\ \A j \in 1..Len(KeptPipes) :
                /\ pipes'[j].id = KeptPipes[j].id
                /\ pipes'[j].x = KeptPipes[j].x
                /\ pipes'[j].passed =
                      (KeptPipes[j].passed
                       \/ KeptPipes[j].x + PIPE_WIDTH < BIRD_START_X)
          /\ SpawnDue(KeptPipes) =>
                /\ pipes'[Len(pipes')].x = SCREEN_WIDTH
                /\ \A i \in 1..Len(pipes) : pipes[i].id # pipes'[Len(pipes')].id
          /\ score' = score + Cardinality({i \in 1..Len(pipes) :
                                             Scores(pipes[i], pipes[i].x - PIPE_SPEED)})

C14_HitStillAdvancesPipes == [][C14_Step]_vars

\* A tick signaled a pipe hit and every pipe is 3 px left of where it was
\* before.
C14_Witness ==
    /\ op = "render"
    /\ updates = 1
    /\ hit = "pipe"
    /\ GameState = "Over"
    /\ Len(pipes) = Len(pre.pipes)
    /\ Len(pipes) >= 2
    /\ \A i \in 1..Len(pipes) : pipes[i].x = pre.pipes[i].x - PIPE_SPEED

\* ---------------------------------------------------------------------
\* The height of the play field above the ground.
PlayableHeight == SCREEN_HEIGHT - GROUND_HEIGHT

\* The ids of pipes' that pipes does not hold: the pipes a step creates.
Created == {j \in 1..Len(pipes') : \A i \in 1..Len(pipes) : pipes[i].id # pipes'[j].id}

\* C15 (as stated): every pipe has topHeight within
\* [50, playableHeight - PIPE_GAP - 100] and bottomHeight = playableHeight -
\* PIPE_GAP - topHeight.  (Heights in 1/Cent px.)
C15_TopHeightAtMostMinus100 ==
    \A i \in 1..Len(pipes) :
        /\ pipes[i].topHeight >= 50 * Cent
        /\ pipes[i].topHeight <= (PlayableHeight - PIPE_GAP - 100) * Cent
        /\ pipes[i].bottomHeight =
              (PlayableHeight - PIPE_GAP) * Cent - pipes[i].topHeight

\* C15 (amended): every pipe, seeded or spawned, has topHeight within
\* [50, playableHeight - PIPE_GAP - 50) and bottomHeight = playableHeight -
\* PIPE_GAP - topHeight, so more than 50; a tick creates at most one pipe,
\* appends it at x = SCREEN_WIDTH, and only when the last pipe, after the
\* tick's advance, is at x < SCREEN_WIDTH - 300.
C15_Inv ==
    \A i \in 1..Len(pipes) :
        /\ pipes[i].topHeight >= 50 * Cent
        /\ pipes[i].topHeight < (PlayableHeight - PIPE_GAP - 50) * Cent
        /\ pipes[i].bottomHeight =
              (PlayableHeight - PIPE_GAP) * Cent - pipes[i].topHeight
        /\ pipes[i].bottomHeight > 50 * Cent

C15_Step ==
    (OneTick /\ Created # {}) =>
        /\ Created = {Len(pipes')}
        /\ Len(pipes') >= 2
        /\ pipes'[Len(pipes')].x = SCREEN_WIDTH
        /\ ~pipes'[Len(pipes')].passed
        /\ pipes'[Len(pipes') - 1].id = pipes[Len(pipes)].id
        /\ pipes'[Len(pipes') - 1].x = pipes[Len(pipes)].x - PIPE_SPEED
        /\ pipes'[Len(pipes') - 1].x < SCREEN_WIDTH - 300

C15_PipeShape == []C15_Inv /\ [][C15_Step]_vars

\* The first pipe spawned in a run, with a top segment longer than
\* playableHeight - PIPE_GAP - 100.
C15_Witness ==
    /\ op = "render"
    /\ updates = 1
    /\ Len(pipes) = SEED_COUNT + 1
    /\ pipes[SEED_COUNT + 1].id = SEED_COUNT
    /\ pipes[SEED_COUNT + 1].x = SCREEN_WIDTH
    /\ pipes[SEED_COUNT].x < SCREEN_WIDTH - 300
    /\ pipes[SEED_COUNT + 1].topHeight > (PlayableHeight - PIPE_GAP - 100) * Cent

\* ---------------------------------------------------------------------
\* C16: within a run the pipe ids are unique and strictly increasing along
\* the list, and every pipe a tick spawns gets an id greater than every id
\* given out before in that run (usedIds), over several spawns and over the
\* restarts of the game loop between them.
C16_Inv ==
    /\ \A i, j \in 1..Len(pipes) : i < j => pipes[i].id < pipes[j].id
    /\ usedIds # {} => \A i \in 1..Len(pipes) : pipes[i].id \in usedIds

C16_Step ==
    (op' = "render" /\ updates' > 0 /\ Created # {}) =>
        \A j \in Created :
            /\ \A u \in usedIds : pipes'[j].id > u
            /\ pipes'[j].id \in usedIds'
            /\ usedIds \subseteq usedIds'

C16_IdsIncrease == []C16_Inv /\ [][C16_Step]_vars

\* The second pipe spawned in a run, by a game loop that was started again
\* after the first spawn.
C16_Witness ==
    /\ op = "render"
    /\ updates > 0
    /\ usedIds = 0..(SEED_COUNT + 1)
    /\ pipes[Len(pipes)].id = SEED_COUNT + 1
    /\ pipes[Len(pipes)].x = SCREEN_WIDTH
    /\ pipes[Len(pipes) - 1].id = SEED_COUNT
    /\ currentPipeIdCounter = SEED_COUNT + 2
    /\ rendered.pipeIdCounter = SEED_COUNT + 2
    /\ lastDeps.pipeIdCounter = SEED_COUNT + 1

\* ---------------------------------------------------------------------
\* C17: the elapsed time that gravity integrates over is capped at 50 ms:
\* gravity raises the velocity by no more than GRAVITY * 50 / 16.67 on a
\* frame, however long the pause before it.  (A frame that stops the bird at
\* the ceiling sets the velocity to 0 afterwards; gravity's increment is read
\* off the frames that do not.)
C17_Step ==
    (op' = "frame" /\ frames' = frames + 1
     /\ ~(birdYValue' = CeilingY /\ birdVelocity' = 0)) =>
        /\ birdVelocity' - birdVelocity
              <= (GRAVITY_X100 * 50 * Scale) \div FRAME_MS_X100
        /\ birdYValue' - birdYValue = birdVelocity'

C17_GravityStepCapped == [][C17_Step]_vars

\* The first frame of a run came after a pause of more than 50 ms and raised
\* the velocity by exactly the cap.
C17_Witness ==
    /\ op = "frame"
    /\ frames = 1
    /\ \E elapsed \in FirstFrameMs : elapsed > 50
    /\ birdVelocity - pre.birdVelocity = (GRAVITY_X100 * 50 * Scale) \div FRAME_MS_X100

\* ---------------------------------------------------------------------
\* C18: when the position a frame computes after gravity is at or above the
\* ceiling boundary (Y <= half the collision height), the frame leaves the
\* bird at the boundary with velocity 0, and the ceiling alone does not end
\* the game: the frame sets neither game flag, queues the update of the pipes
\* and requests the next frame.  The position the frame computes is the
\* double: on the boundary when the exact sum is and the rounding error is 0,
\* above it (Y smaller) when the error is negative, below it when positive;
\* in the last case the bird is not stopped.
C18_Step ==
    (op' = "frame" /\ hit' # "ground" /\ frames' = frames + 1) =>
        \E elapsed \in FrameTimes :
            LET currentY == birdYValue + Gravity(birdVelocity, DeltaTime(elapsed))
                onOrAbove ==
                    \/ currentY < (BIRD_COLLISION_SIZE * Scale) \div 2
                    \/ /\ currentY = (BIRD_COLLISION_SIZE * Scale) \div 2
                       /\ rounding' <= 0
            IN  IF onOrAbove
                THEN /\ birdYValue' = (BIRD_COLLISION_SIZE * Scale) \div 2
                     /\ birdVelocity' = 0
                     /\ UNCHANGED <<gameStarted, gameOver>>
                     /\ Len(queue') = Len(queue) + 1
                     /\ animationFrameRef'
                ELSE /\ birdYValue' = currentY
                     /\ birdVelocity' = Gravity(birdVelocity, DeltaTime(elapsed))

C18_CeilingClamps == [][C18_Step]_vars

\* A frame put the rising bird exactly on the ceiling boundary, rounding
\* error 0: it was stopped there and the game goes on.
C18_Witness ==
    /\ op = "frame"
    /\ hit = "none"
    /\ rounding = 0
    /\ pre.birdVelocity < 0
    /\ \E elapsed \in FrameMs :
          pre.birdYValue + Gravity(pre.birdVelocity, DeltaTime(elapsed))
              = (BIRD_COLLISION_SIZE * Scale) \div 2
    /\ birdYValue = (BIRD_COLLISION_SIZE * Scale) \div 2
    /\ birdVelocity = 0
    /\ GameState = "Running"
    /\ animationFrameRef

\* ---------------------------------------------------------------------
\* C19 (as stated): a tick is one atomic update: whoever looks at the game
\* or acts on it after a frame has moved the bird finds the pipes advanced
\* and the collision checked for that same frame; what the screen shows and
\* what the tap and restart handlers read is the state the frame left.
C19_Inv ==
    op = "frame" =>
        /\ queue = <<>>
        /\ rendered.score = score
        /\ ShownState = GameState

C19_Step ==
    (op = "frame" /\ op' \in {"tap", "restart"}) =>
        /\ queue = <<>>
        /\ ShownState = GameState

C19_FrameIsAtomic == []C19_Inv /\ [][C19_Step]_vars

\* ---------------------------------------------------------------------
\* C20 (as stated): a pipe that was marked passed on an earlier tick never
\* triggers a collision: a tick that signals a pipe hit has the bird's box
\* reaching into a pipe that was not passed before the tick.
C20_Step ==
    (OneTick /\ hit' = "pipe") =>
        \E k \in 1..Len(pipes') :
            /\ pipes'[k].id \notin passedIds
            /\ OverlapsBox(pipes'[k], queue[1].birdTop, queue[1].birdBottom)

C20_PassedNeverHits == [][C20_Step]_vars

\* ---------------------------------------------------------------------
\* C21: on a screen at least 320 wide, while the game is Running after the
\* seeding the pipe list is never empty and the stream of pipes does not
\* stall.  In finite form: the last pipe is never further left than
\* SCREEN_WIDTH - 300, so it is on screen and never pruned; every tick of a
\* running game moves it 3 px left and, on the tick that takes it below
\* SCREEN_WIDTH - 300, appends a new last pipe at SCREEN_WIDTH.  A spawned
\* pipe is therefore followed by the next one after 101 ticks, the seeded
\* ones after 367.
C21_Inv ==
    (screen.width >= 320 /\ ShownState = "Running" /\ GameState = "Running"
     /\ usedIds # {}) =>
        /\ pipes # <<>>
        /\ pipes[Len(pipes)].x >= SCREEN_WIDTH - 300
        /\ pipes[Len(pipes)].x + PIPE_WIDTH > 0

C21_Step ==
    (/\ screen.width >= 320
     /\ ShownState = "Running" /\ GameState = "Running" /\ usedIds # {}
     /\ OneTick /\ ShownState' = "Running") =>
        LET last == pipes[Len(pipes)]
            n == Len(pipes')
        IN  IF last.x - PIPE_SPEED < SCREEN_WIDTH - 300
            THEN /\ n >= 2
                 /\ pipes'[n].x = SCREEN_WIDTH
                 /\ pipes'[n].id \notin usedIds
                 /\ pipes'[n - 1].id = last.id
                 /\ pipes'[n - 1].x = last.x - PIPE_SPEED
            ELSE /\ n >= 1
                 /\ pipes'[n].id = last.id
                 /\ pipes'[n].x = last.x - PIPE_SPEED

C21_StreamNeverStalls == []C21_Inv /\ [][C21_Step]_vars

\* On the 320 wide screen the game is still Running on the tick that spawns
\* the first pipe, after the first seeded pipe was pruned.
C21_Witness ==
    /\ screen.width = 320
    /\ op = "render"
    /\ updates = 1
    /\ GameState = "Running"
    /\ pipes[1].id > 0
    /\ pipes[Len(pipes)].id = SEED_COUNT
    /\ pipes[Len(pipes)].x = SCREEN_WIDTH
    /\ pipes[Len(pipes) - 1].x < SCREEN_WIDTH - 300
    /\ pipes[Len(pipes) - 1].x + PIPE_WIDTH > 0

====
